---------------------------- MODULE Spec2Model ----------------------------
(***************************************************************************)
(* Model of library/s3_event.py: the reconciliation of one S3 bucket       *)
(* notification entry (s3_event_notification) and of the Lambda invoke     *)
(* permission that goes with it (assert_policy_state and its helpers).     *)
(*                                                                         *)
(* The cloud platform is the shared state: the bucket's notification       *)
(* document and the function's resource policy (one per qualifier).  Each  *)
(* invocation of the module is a process; one action is one cloud API call *)
(* together with the local code that runs up to the next API call, so that *)
(* invocations can interleave exactly where the code can be preempted by   *)
(* another writer.                                                         *)
(*                                                                         *)
(* Python values: a missing / None / empty parameter is the empty string   *)
(* "" (all are falsy and the code only tests truthiness); an optional dict *)
(* key is a set holding at most one value ({} = key absent).               *)
(***************************************************************************)
EXTENDS Integers, Sequences, FiniteSets, TLC

VARIABLES
    bucketNotification,     \* the bucket's notification document (S3 side)
    functionPolicy,         \* qualifier -> set of policy statements (Lambda side)
    account_id,             \* AWSConnection.account_id
    serialized,             \* TRUE: the caller runs the invocations one after the other
    pc,                     \* per invocation: the next step
    params,                 \* per invocation: module.params and module.check_mode
    facts,                  \* per invocation: local 'facts'
    current_lambda_configs, \* per invocation: local 'current_lambda_configs'
    matching_id_config,     \* per invocation: local 'matching_id_config' ({} = empty dict)
    current_state,          \* per invocation: local 'current_state'
    changed,                \* per invocation: local 'changed'
    currently_present,      \* per invocation: get_policy_state's result
    policy_changed,         \* per invocation: assert_policy_state's result
    calls,                  \* per invocation: the cloud API calls issued, in order
    msg,                    \* per invocation: fail_json's message ("" = none)
    pre,                    \* per invocation: the remote state when it started
    compared                \* the two values given to the comparator, and its verdict

vars == <<bucketNotification, functionPolicy, account_id, serialized, compared, pc, params,
          facts, current_lambda_configs, matching_id_config, current_state,
          changed, currently_present, policy_changed, calls, msg, pre>>

Procs == {1, 2}

(***************************************************************************)
(* Bounds of the model.                                                    *)
(***************************************************************************)
\* longest Lambda-configuration list the bucket starts with
MaxInitConfigs == 2

(***************************************************************************)
(* Small helpers.                                                          *)
(***************************************************************************)
Range(s) == {s[i] : i \in DOMAIN s}

\* mutants of RemoveAt: nothing is removed / the first element is removed
RemoveNothing(s, i) == s

RemoveFirst(s, i) == Tail(s)

\* list.remove(x) on position i / a list without its i-th element
RemoveAt(s, i) == [j \in 1..(Len(s) - 1) |-> IF j < i THEN s[j] ELSE s[j + 1]]

\* the multiset of a list's elements
BagOfSeq(s) == [e \in Range(s) |-> Cardinality({i \in DOMAIN s : s[i] = e})]

\* Python truthiness of a string parameter ("" stands for None and '')
Truthy(v) == v # ""

(***************************************************************************)
(* Python values as the comparator sees them: a str, a list or a dict      *)
(* (a sequence of <<key, value>> items).                                   *)
(***************************************************************************)
PyStr(s) == <<"str", s>>
PyList(elems) == <<"list", elems>>
PyDict(items) == <<"dict", items>>

\* mutant of ordered_obj: lists are left in their order
RECURSIVE ordered_obj_lists_unsorted(_)
ordered_obj_lists_unsorted(obj) ==
    IF obj[1] = "dict" THEN
        <<"sorted", BagOfSeq([i \in DOMAIN obj[2] |->
                        <<"tuple", obj[2][i][1], ordered_obj_lists_unsorted(obj[2][i][2])>>])>>
    ELSE IF obj[1] = "list" THEN
        <<"list", [i \in DOMAIN obj[2] |-> ordered_obj_lists_unsorted(obj[2][i])]>>
    ELSE obj

\* mutant of ordered_obj: a list becomes the set of its elements
RECURSIVE ordered_obj_without_repeats(_)
ordered_obj_without_repeats(obj) ==
    IF obj[1] = "dict" THEN
        <<"sorted", BagOfSeq([i \in DOMAIN obj[2] |->
                        <<"tuple", obj[2][i][1], ordered_obj_without_repeats(obj[2][i][2])>>])>>
    ELSE IF obj[1] = "list" THEN
        <<"sorted", [e \in {ordered_obj_without_repeats(obj[2][i]) : i \in DOMAIN obj[2]} |-> 1]>>
    ELSE obj

(***************************************************************************)
(* ordered_obj: a dict becomes the sorted list of its (key, ordered value) *)
(* tuples, a list the sorted list of its ordered elements, anything else   *)
(* is returned as is.  Two sorted lists are equal iff they hold the same   *)
(* multiset, so the sorted list is represented by its multiset; both       *)
(* branches return a Python list, hence the same tag.                      *)
(***************************************************************************)
RECURSIVE ordered_obj(_)
ordered_obj(obj) ==
    IF obj[1] = "dict" THEN
        <<"sorted", BagOfSeq([i \in DOMAIN obj[2] |->
                        <<"tuple", obj[2][i][1], ordered_obj(obj[2][i][2])>>])>>
    ELSE IF obj[1] = "list" THEN
        <<"sorted", BagOfSeq([i \in DOMAIN obj[2] |-> ordered_obj(obj[2][i])])>>
    ELSE obj

(***************************************************************************)
(* Notification configurations.  An entry of LambdaFunctionConfigurations  *)
(* is a dict with the keys Id, LambdaFunctionArn and, optionally, Filter   *)
(* (= {Key: {FilterRules: [...]}}) and Events.                             *)
(***************************************************************************)
FilterRule(name, value) == [Name |-> name, Value |-> value]

RuleObj(r) == PyDict(<< <<"Name", PyStr(r.Name)>>, <<"Value", PyStr(r.Value)>> >>)

FilterObj(rules) ==
    PyDict(<< <<"Key", PyDict(<< <<"FilterRules",
                 PyList([i \in DOMAIN rules |-> RuleObj(rules[i])])>> >>)>> >>)

\* the Python dict a configuration record stands for
ConfigObj(c) ==
    PyDict(<< <<"Id", PyStr(c.Id)>>, <<"LambdaFunctionArn", PyStr(c.LambdaFunctionArn)>> >>
           \o (IF c.Filter = {} THEN <<>>
               ELSE << <<"Filter", FilterObj(CHOOSE f \in c.Filter : TRUE)>> >>)
           \o (IF c.Events = {} THEN <<>>
               ELSE << <<"Events", LET ev == CHOOSE e \in c.Events : TRUE
                                   IN PyList([i \in DOMAIN ev |-> PyStr(ev[i])])>> >>))

\* str(): the parameters of the model are strings already
str(v) == v

\* mutant of NewConfiguration: the entry built always carries the id x
NewConfigurationOfX(prm) ==
    LET sp == prm.source_params
        filter_rules ==
            (IF Truthy(sp.prefix) THEN <<FilterRule("Prefix", str(sp.prefix))>> ELSE <<>>)
            \o (IF Truthy(sp.suffix) THEN <<FilterRule("Suffix", str(sp.suffix))>> ELSE <<>>)
    IN [Id |-> "x",
        LambdaFunctionArn |-> prm.lambda_function_arn,
        Filter |-> IF filter_rules # <<>> THEN {filter_rules} ELSE {},
        Events |-> IF sp.events # <<>> THEN {sp.events} ELSE {}]

\* new_configuration as built from the module parameters
NewConfiguration(prm) ==
    LET sp == prm.source_params
        filter_rules ==
            (IF Truthy(sp.prefix) THEN <<FilterRule("Prefix", str(sp.prefix))>> ELSE <<>>)
            \o (IF Truthy(sp.suffix) THEN <<FilterRule("Suffix", str(sp.suffix))>> ELSE <<>>)
    IN [Id |-> sp.id,
        LambdaFunctionArn |-> prm.lambda_function_arn,
        Filter |-> IF filter_rules # <<>> THEN {filter_rules} ELSE {},
        Events |-> IF sp.events # <<>> THEN {sp.events} ELSE {}]

\* mutant of SameConfiguration: the comparison is negated
DifferentConfiguration(matching, new) ==
    ordered_obj(ConfigObj(matching)) # ordered_obj(ConfigObj(new))

\* the comparison of line 483
SameConfiguration(matching, new) == ordered_obj(ConfigObj(matching)) = ordered_obj(ConfigObj(new))

\* mutant of FirstMatch: no entry ever matches
FirstMatchNever(configs, id) == 0

\* position of the first entry whose Id is the given one (0 = none): the for loop
FirstMatch(configs, id) ==
    IF \E i \in DOMAIN configs : configs[i].Id = id
    THEN CHOOSE i \in DOMAIN configs :
            /\ configs[i].Id = id
            /\ \A j \in 1..(i - 1) : configs[j].Id # id
    ELSE 0

NoFacts == [LambdaFunctionConfigurations |-> {},
            TopicConfigurations |-> <<>>,
            QueueConfigurations |-> <<>>]

\* what get_bucket_notification_configuration returns: a key only for a non-empty list
DocOf(remote) ==
    [LambdaFunctionConfigurations |->
        IF remote.LambdaFunctionConfigurations = <<>> THEN {}
        ELSE {remote.LambdaFunctionConfigurations},
     TopicConfigurations |-> remote.TopicConfigurations,
     QueueConfigurations |-> remote.QueueConfigurations]

\* what put_bucket_notification_configuration leaves in the bucket: the document given
Stored(doc) ==
    [LambdaFunctionConfigurations |->
        IF doc.LambdaFunctionConfigurations = {} THEN <<>>
        ELSE CHOOSE l \in doc.LambdaFunctionConfigurations : TRUE,
     TopicConfigurations |-> doc.TopicConfigurations,
     QueueConfigurations |-> doc.QueueConfigurations]

(***************************************************************************)
(* Parameter mapper.  A snake_case key is the sequence of its '_'          *)
(* separated tokens; pc() capitalizes each token and joins them.           *)
(***************************************************************************)
capitalize(token) ==
    CASE token = "statement" -> "Statement"
      [] token = "id"        -> "Id"
      [] token = "action"    -> "Action"
      [] token = "principal" -> "Principal"
      [] token = "source"    -> "Source"
      [] token = "arn"       -> "Arn"
      [] token = "account"   -> "Account"
      [] OTHER               -> token

PascalCase(key) == [i \in DOMAIN key |-> capitalize(key[i])]

\* mutant of set_api_sub_params: parameters without a value are passed on as well
RECURSIVE set_api_sub_params_all(_)
set_api_sub_params_all(items) ==
    IF items = <<>> THEN <<>>
    ELSE << <<PascalCase(Head(items)[1]), Head(items)[2]>> >>
         \o set_api_sub_params_all(Tail(items))

RECURSIVE set_api_sub_params(_)
set_api_sub_params(items) ==
    IF items = <<>> THEN <<>>
    ELSE LET param == Head(items)[1]
             param_value == Head(items)[2]
         IN (IF Truthy(param_value) THEN << <<PascalCase(param), param_value>> >> ELSE <<>>)
            \o set_api_sub_params(Tail(items))

\* dict.get(key, "")
Lookup(items, key) ==
    IF \E i \in DOMAIN items : items[i][1] = key
    THEN items[CHOOSE i \in DOMAIN items : items[i][1] = key][2]
    ELSE ""

\* 'arn:aws:s3:::{0}'.format(bucket)
S3Arn(bucket) ==
    CASE bucket = "b" -> "arn:aws:s3:::b"
      [] OTHER        -> "arn:aws:s3:::"

\* the policy dict of lines 500-506
InvokePolicy(prm, account) ==
    << <<(<<"statement", "id">>), prm.source_params.id>>,
       <<(<<"action">>), "lambda:InvokeFunction">>,
       <<(<<"principal">>), "s3.amazonaws.com">>,
       <<(<<"source", "arn">>), S3Arn(prm.source_params.bucket)>>,
       <<(<<"source", "account">>), account>> >>

\* the policy dict of lines 538-540
RemovalPolicy(prm) == << <<(<<"statement", "id">>), prm.source_params.id>> >>

\* the statement Lambda records for an add_permission call
StatementOf(api_params) ==
    [Sid           |-> Lookup(api_params, <<"Statement", "Id">>),
     Action        |-> Lookup(api_params, <<"Action">>),
     Principal     |-> Lookup(api_params, <<"Principal">>),
     SourceArn     |-> Lookup(api_params, <<"Source", "Arn">>),
     SourceAccount |-> Lookup(api_params, <<"Source", "Account">>)]

\* str(version) for the versions of the model
VersionStr(version) ==
    CASE version = 1 -> "1"
      [] OTHER       -> "0"

\* get_qualifier ("" = None)
get_qualifier(prm) ==
    IF prm.version > 0 THEN VersionStr(prm.version)
    ELSE IF Truthy(prm.alias) THEN str(prm.alias)
    ELSE ""

\* get_arn: the first of topic_arn, queue_arn, lambda_function_arn that is set
\* ("" = none: fail_json)
get_arn(prm) ==
    IF Truthy(prm.topic_arn) THEN prm.topic_arn
    ELSE IF Truthy(prm.queue_arn) THEN prm.queue_arn
    ELSE IF Truthy(prm.lambda_function_arn) THEN prm.lambda_function_arn
    ELSE ""

\* api_params of add_policy_permission, lines 340-345
AddPermissionParams(prm, account) ==
    << <<(<<"FunctionName">>), prm.lambda_function_arn>> >>
    \o set_api_sub_params(InvokePolicy(prm, account))
    \o (IF Truthy(get_qualifier(prm)) THEN << <<(<<"Qualifier">>), get_qualifier(prm)>> >>
        ELSE <<>>)

\* api_params of remove_policy_permission, lines 370-375
RemovePermissionParams(prm) ==
    << <<(<<"FunctionName">>), prm.lambda_function_arn>>,
       <<(<<"StatementId">>), Lookup(RemovalPolicy(prm), <<"statement", "id">>)>> >>
    \o (IF Truthy(get_qualifier(prm)) THEN << <<(<<"Qualifier">>), get_qualifier(prm)>> >>
        ELSE <<>>)

(***************************************************************************)
(* The API calls an invocation issues are logged in 'calls'.               *)
(***************************************************************************)
NoStatement == <<>>

\* error: the code of the error the call raised ("" = the call returned)
NoError == ""

Call(api, doc, api_params, qualifier, error) ==
    [api |-> api, doc |-> doc, api_params |-> api_params, qualifier |-> qualifier,
     error |-> error]

Final == {"done", "failed", "idle"}

\* the caller serializes the invocations: an invocation runs once the earlier ones ended
Turn(p) == serialized => \A q \in Procs : q < p => pc[q] \in Final

fail_json(p, message) ==
    /\ pc' = [pc EXCEPT ![p] = "failed"]
    /\ msg' = [msg EXCEPT ![p] = message]

\* mutant of CheckSourceParams: 'bucket' is not checked
CheckSourceParamsIdOnly(p) ==
    /\ pc[p] = "start"
    /\ Turn(p)
    /\ pre' = [pre EXCEPT ![p] = [doc |-> bucketNotification, policy |-> functionPolicy]]
    /\ IF ~Truthy(params[p].source_params.id)
       THEN fail_json(p, "Source parameter 'id' is required")
       ELSE pc' = [pc EXCEPT ![p] = "get_notification"] /\ UNCHANGED msg
    /\ UNCHANGED <<bucketNotification, functionPolicy, account_id, serialized, compared, params,
                   facts, current_lambda_configs, matching_id_config, current_state,
                   changed, currently_present, policy_changed, calls>>

(***************************************************************************)
(* s3_event_notification, lines 425-439: the required sub-parameters.      *)
(***************************************************************************)
CheckSourceParams(p) ==
    /\ pc[p] = "start"
    /\ Turn(p)
    /\ pre' = [pre EXCEPT ![p] = [doc |-> bucketNotification, policy |-> functionPolicy]]
    /\ IF ~Truthy(params[p].source_params.id)
       THEN fail_json(p, "Source parameter 'id' is required")
       ELSE IF ~Truthy(params[p].source_params.bucket)
       THEN fail_json(p, "Source parameter 'bucket' is required")
       ELSE pc' = [pc EXCEPT ![p] = "get_notification"] /\ UNCHANGED msg
    /\ UNCHANGED <<bucketNotification, functionPolicy, account_id, serialized, compared, params,
                   facts, current_lambda_configs, matching_id_config, current_state,
                   changed, currently_present, policy_changed, calls>>

(***************************************************************************)
(* Lines 441-489: read the notification document, get_arn, look for the    *)
(* entry with the given Id and decide what to do.                          *)
(***************************************************************************)
GetBucketNotificationConfiguration(p) ==
    /\ pc[p] = "get_notification"
    /\ Turn(p)
    /\ LET prm == params[p]
           got == DocOf(bucketNotification)
           listed == IF got.LambdaFunctionConfigurations = {} THEN <<>>
                     ELSE CHOOSE l \in got.LambdaFunctionConfigurations : TRUE
           popped == [got EXCEPT !.LambdaFunctionConfigurations = {}]
           at == FirstMatch(listed, prm.source_params.id)
           rest == IF at = 0 THEN listed ELSE RemoveAt(listed, at)
           new_configuration == NewConfiguration(prm)
       IN /\ calls' = [calls EXCEPT ![p] = Append(@,
                          Call("GetBucketNotificationConfiguration", got, NoStatement, "", NoError))]
          /\ IF get_arn(prm) = ""
             THEN /\ fail_json(p, "Error: exactly one target service ARN is required.")
                  /\ facts' = [facts EXCEPT ![p] = got]
                  /\ UNCHANGED <<current_lambda_configs, matching_id_config, current_state>>
             ELSE /\ matching_id_config' = [matching_id_config EXCEPT ![p] =
                          IF at = 0 THEN {} ELSE {listed[at]}]
                  /\ current_state' = [current_state EXCEPT ![p] =
                          IF at = 0 THEN "absent" ELSE "present"]
                  /\ UNCHANGED msg
                  /\ IF prm.state = "present"
                     THEN IF at # 0
                          THEN IF SameConfiguration(listed[at], new_configuration)
                               THEN /\ current_lambda_configs' =
                                          [current_lambda_configs EXCEPT ![p] = Append(rest, listed[at])]
                                    /\ facts' = [facts EXCEPT ![p] = popped]
                                    /\ pc' = [pc EXCEPT ![p] = "done"]
                               ELSE /\ current_lambda_configs' =
                                          [current_lambda_configs EXCEPT ![p] = Append(rest, new_configuration)]
                                    /\ facts' = [facts EXCEPT ![p] =
                                          [popped EXCEPT !.LambdaFunctionConfigurations =
                                              {Append(rest, new_configuration)}]]
                                    /\ pc' = [pc EXCEPT ![p] = "put_update"]
                          ELSE /\ current_lambda_configs' = [current_lambda_configs EXCEPT ![p] = rest]
                               /\ facts' = [facts EXCEPT ![p] = popped]
                               /\ pc' = [pc EXCEPT ![p] = "get_policy"]
                     ELSE IF at # 0
                          THEN /\ current_lambda_configs' = [current_lambda_configs EXCEPT ![p] = rest]
                               /\ facts' = [facts EXCEPT ![p] =
                                     IF rest # <<>>
                                     THEN [popped EXCEPT !.LambdaFunctionConfigurations = {rest}]
                                     ELSE popped]
                               /\ pc' = [pc EXCEPT ![p] = "put_delete"]
                          ELSE /\ current_lambda_configs' = [current_lambda_configs EXCEPT ![p] = rest]
                               /\ facts' = [facts EXCEPT ![p] = popped]
                               /\ pc' = [pc EXCEPT ![p] = "done"]
    /\ UNCHANGED <<bucketNotification, functionPolicy, account_id, serialized, compared, params,
                   changed, currently_present, policy_changed, pre>>

\* mutant of put_bucket_notification_configuration: the check-mode test is inverted
put_when_check_mode(p, doc) ==
    IF ~params[p].check_mode
    THEN UNCHANGED <<bucketNotification, calls>>
    ELSE /\ bucketNotification' = Stored(doc)
         /\ calls' = [calls EXCEPT ![p] = Append(@,
                         Call("PutBucketNotificationConfiguration", doc, NoStatement, "", NoError))]

\* mutant of put_bucket_notification_configuration: the document written holds the
\* Lambda configurations only
put_lambda_configurations_only(p, doc) ==
    IF params[p].check_mode
    THEN UNCHANGED <<bucketNotification, calls>>
    ELSE LET written == [doc EXCEPT !.TopicConfigurations = <<>>,
                                    !.QueueConfigurations = <<>>]
         IN /\ bucketNotification' = Stored(written)
            /\ calls' = [calls EXCEPT ![p] = Append(@,
                            Call("PutBucketNotificationConfiguration", written,
                                 NoStatement, "", NoError))]

(***************************************************************************)
(* put_bucket_notification_configuration: a full replacement write,        *)
(* suppressed in check mode.                                               *)
(***************************************************************************)
put_bucket_notification_configuration(p, doc) ==
    IF params[p].check_mode
    THEN UNCHANGED <<bucketNotification, calls>>
    ELSE /\ bucketNotification' = Stored(doc)
         /\ calls' = [calls EXCEPT ![p] = Append(@,
                         Call("PutBucketNotificationConfiguration", doc, NoStatement, "", NoError))]

\* mutant of PutUpdate: changed is set only when the write is made
PutUpdateChangedOnWrite(p) ==
    /\ pc[p] = "put_update"
    /\ Turn(p)
    /\ put_bucket_notification_configuration(p, facts[p])
    /\ changed' = [changed EXCEPT ![p] = ~params[p].check_mode]
    /\ pc' = [pc EXCEPT ![p] = "done"]
    /\ UNCHANGED <<functionPolicy, account_id, serialized, compared, params, facts,
                   current_lambda_configs, matching_id_config, current_state,
                   currently_present, policy_changed, msg, pre>>

\* lines 486-496: the entry exists and differs
PutUpdate(p) ==
    /\ pc[p] = "put_update"
    /\ Turn(p)
    /\ put_bucket_notification_configuration(p, facts[p])
    /\ changed' = [changed EXCEPT ![p] = TRUE]
    /\ pc' = [pc EXCEPT ![p] = "done"]
    /\ UNCHANGED <<functionPolicy, account_id, serialized, compared, params, facts,
                   current_lambda_configs, matching_id_config, current_state,
                   currently_present, policy_changed, msg, pre>>

\* mutant of PutCreate: the document written holds the new entry only
PutCreateOnlyNew(p) ==
    /\ pc[p] = "put_create"
    /\ Turn(p)
    /\ LET configs == <<NewConfiguration(params[p])>>
           doc == [facts[p] EXCEPT !.LambdaFunctionConfigurations = {configs}]
       IN /\ current_lambda_configs' = [current_lambda_configs EXCEPT ![p] = configs]
          /\ facts' = [facts EXCEPT ![p] = doc]
          /\ put_bucket_notification_configuration(p, doc)
    /\ changed' = [changed EXCEPT ![p] = TRUE]
    /\ pc' = [pc EXCEPT ![p] = "done"]
    /\ UNCHANGED <<functionPolicy, account_id, serialized, compared, params,
                   matching_id_config, current_state,
                   currently_present, policy_changed, msg, pre>>

\* lines 509-519: the entry does not exist
PutCreate(p) ==
    /\ pc[p] = "put_create"
    /\ Turn(p)
    /\ LET configs == Append(current_lambda_configs[p], NewConfiguration(params[p]))
           doc == [facts[p] EXCEPT !.LambdaFunctionConfigurations = {configs}]
       IN /\ current_lambda_configs' = [current_lambda_configs EXCEPT ![p] = configs]
          /\ facts' = [facts EXCEPT ![p] = doc]
          /\ put_bucket_notification_configuration(p, doc)
    /\ changed' = [changed EXCEPT ![p] = TRUE]
    /\ pc' = [pc EXCEPT ![p] = "done"]
    /\ UNCHANGED <<functionPolicy, account_id, serialized, compared, params,
                   matching_id_config, current_state,
                   currently_present, policy_changed, msg, pre>>

\* mutant of PutDelete: the invocation ends once the entry is removed
PutDeleteOnly(p) ==
    /\ pc[p] = "put_delete"
    /\ Turn(p)
    /\ put_bucket_notification_configuration(p, facts[p])
    /\ changed' = [changed EXCEPT ![p] = TRUE]
    /\ pc' = [pc EXCEPT ![p] = "done"]
    /\ UNCHANGED <<functionPolicy, account_id, serialized, compared, params, facts,
                   current_lambda_configs, matching_id_config, current_state,
                   currently_present, policy_changed, msg, pre>>

\* lines 525-536: state=absent and the entry exists
PutDelete(p) ==
    /\ pc[p] = "put_delete"
    /\ Turn(p)
    /\ put_bucket_notification_configuration(p, facts[p])
    /\ changed' = [changed EXCEPT ![p] = TRUE]
    /\ pc' = [pc EXCEPT ![p] = "get_policy"]
    /\ UNCHANGED <<functionPolicy, account_id, serialized, compared, params, facts,
                   current_lambda_configs, matching_id_config, current_state,
                   currently_present, policy_changed, msg, pre>>

(***************************************************************************)
(* assert_policy_state / get_policy_state: the statement is looked up in   *)
(* the policy of the qualified function; no policy (ResourceNotFound) is   *)
(* an absent statement.                                                    *)
(***************************************************************************)
StatementPresent(statements, sid) == \E s \in statements : s.Sid = sid

\* client.get_policy: Lambda raises ResourceNotFoundException for a function without policy
get_policy(statements) ==
    IF statements = {} THEN [Error |-> "ResourceNotFoundException", Policy |-> {}]
    ELSE [Error |-> NoError, Policy |-> {[Statement |-> statements]}]

\* mutant of get_policy_state: a policy that was found holds the statement
get_policy_state_any_policy(policy_results, sid) == policy_results.Policy # {}

\* get_policy_state, lines 298-324, once the lookup did not end in fail_json: 'policy'
\* stays the empty dict when the error is ResourceNotFoundException
get_policy_state(policy_results, sid) ==
    \E policy \in policy_results.Policy : StatementPresent(policy.Statement, sid)

GetPolicy(p) ==
    /\ pc[p] = "get_policy"
    /\ Turn(p)
    /\ LET prm == params[p]
           policy_results == get_policy(functionPolicy[get_qualifier(prm)])
           present == get_policy_state(policy_results, prm.source_params.id)
       IN /\ calls' = [calls EXCEPT ![p] = Append(@,
                          Call("GetPolicy", NoFacts, NoStatement, get_qualifier(prm),
                               policy_results.Error))]
          /\ currently_present' = [currently_present EXCEPT ![p] = present]
          /\ IF prm.state = "present"
             THEN pc' = [pc EXCEPT ![p] = IF ~present THEN "add_permission" ELSE "put_create"]
             ELSE pc' = [pc EXCEPT ![p] = IF present THEN "remove_permission" ELSE "done"]
    /\ UNCHANGED <<bucketNotification, functionPolicy, account_id, serialized, compared, params, facts,
                   current_lambda_configs, matching_id_config, current_state,
                   changed, policy_changed, msg, pre>>

\* add_policy_permission; Lambda refuses a statement id the policy already has
AddPermission(p) ==
    /\ pc[p] = "add_permission"
    /\ Turn(p)
    /\ LET prm == params[p]
           qualifier == get_qualifier(prm)
           api_params == AddPermissionParams(prm, account_id)
           statement == StatementOf(api_params)
       IN IF prm.check_mode
          THEN /\ policy_changed' = [policy_changed EXCEPT ![p] = TRUE]
               /\ pc' = [pc EXCEPT ![p] = "put_create"]
               /\ UNCHANGED <<functionPolicy, calls, msg>>
          ELSE IF StatementPresent(functionPolicy[qualifier], statement.Sid)
          THEN /\ calls' = [calls EXCEPT ![p] = Append(@,
                              Call("AddPermission", NoFacts, api_params, qualifier, "ClientError"))]
               /\ fail_json(p, "Error adding permission to policy")
               /\ UNCHANGED <<functionPolicy, policy_changed>>
          ELSE /\ calls' = [calls EXCEPT ![p] = Append(@,
                              Call("AddPermission", NoFacts, api_params, qualifier, NoError))]
               /\ functionPolicy' = [functionPolicy EXCEPT ![qualifier] = @ \cup {statement}]
               /\ policy_changed' = [policy_changed EXCEPT ![p] = TRUE]
               /\ pc' = [pc EXCEPT ![p] = "put_create"]
               /\ UNCHANGED msg
    /\ UNCHANGED <<bucketNotification, account_id, serialized, compared, params, facts,
                   current_lambda_configs, matching_id_config, current_state,
                   changed, currently_present, pre>>

\* mutant of RemovePermission: the call is made and the statement stays
RemovePermissionKeeps(p) ==
    /\ pc[p] = "remove_permission"
    /\ Turn(p)
    /\ IF params[p].check_mode
       THEN UNCHANGED calls
       ELSE calls' = [calls EXCEPT ![p] = Append(@,
                         Call("RemovePermission", NoFacts, RemovePermissionParams(params[p]),
                              get_qualifier(params[p]), NoError))]
    /\ policy_changed' = [policy_changed EXCEPT ![p] = TRUE]
    /\ pc' = [pc EXCEPT ![p] = "done"]
    /\ UNCHANGED <<bucketNotification, functionPolicy, account_id, serialized, compared, params, facts,
                   current_lambda_configs, matching_id_config, current_state,
                   changed, currently_present, msg, pre>>

\* remove_policy_permission; Lambda refuses a statement id the policy does not have
RemovePermission(p) ==
    /\ pc[p] = "remove_permission"
    /\ Turn(p)
    /\ LET prm == params[p]
           qualifier == get_qualifier(prm)
           statement_id == Lookup(RemovalPolicy(prm), <<"statement", "id">>)
           api_params == RemovePermissionParams(prm)
       IN IF prm.check_mode
          THEN /\ policy_changed' = [policy_changed EXCEPT ![p] = TRUE]
               /\ pc' = [pc EXCEPT ![p] = "done"]
               /\ UNCHANGED <<functionPolicy, calls, msg>>
          ELSE IF ~StatementPresent(functionPolicy[qualifier], statement_id)
          THEN /\ calls' = [calls EXCEPT ![p] = Append(@,
                              Call("RemovePermission", NoFacts, api_params, qualifier, "ClientError"))]
               /\ fail_json(p, "Error removing permission from policy")
               /\ UNCHANGED <<functionPolicy, policy_changed>>
          ELSE /\ calls' = [calls EXCEPT ![p] = Append(@,
                              Call("RemovePermission", NoFacts, api_params, qualifier, NoError))]
               /\ functionPolicy' = [functionPolicy EXCEPT ![qualifier] =
                                        {s \in @ : s.Sid # statement_id}]
               /\ policy_changed' = [policy_changed EXCEPT ![p] = TRUE]
               /\ pc' = [pc EXCEPT ![p] = "done"]
               /\ UNCHANGED msg
    /\ UNCHANGED <<bucketNotification, account_id, serialized, compared, params, facts,
                   current_lambda_configs, matching_id_config, current_state,
                   changed, currently_present, pre>>

(***************************************************************************)
(* A cloud API call that raises: every call site reports it with fail_json *)
(* (get_policy unless the error is ResourceNotFound, which GetPolicy       *)
(* covers).  Calls that check mode suppresses cannot fail.                 *)
(***************************************************************************)
FailureMessage(at) ==
    CASE at = "get_notification"  -> "Error retrieving s3 event notification configuration"
      [] at = "put_update"        -> "Error updating s3 event notification for lambda"
      [] at = "put_create"        -> "Error creating s3 event notification for lambda"
      [] at = "put_delete"        -> "Error removing s3 source event configuration"
      [] at = "get_policy"        -> "Error retrieving function policy"
      [] at = "add_permission"    -> "Error adding permission to policy"
      [] at = "remove_permission" -> "Error removing permission from policy"

ApiOf(at) ==
    CASE at = "get_notification"  -> "GetBucketNotificationConfiguration"
      [] at \in {"put_update", "put_create", "put_delete"} -> "PutBucketNotificationConfiguration"
      [] at = "get_policy"        -> "GetPolicy"
      [] at = "add_permission"    -> "AddPermission"
      [] at = "remove_permission" -> "RemovePermission"

\* the call that raises, as logged
FailedCall(p) ==
    Call(ApiOf(pc[p]),
         IF pc[p] = "put_create"
         THEN [facts[p] EXCEPT !.LambdaFunctionConfigurations =
                 {Append(current_lambda_configs[p], NewConfiguration(params[p]))}]
         ELSE IF pc[p] \in {"put_update", "put_delete"} THEN facts[p]
         ELSE NoFacts,
         IF pc[p] = "add_permission"
         THEN AddPermissionParams(params[p], account_id)
         ELSE IF pc[p] = "remove_permission"
         THEN RemovePermissionParams(params[p])
         ELSE NoStatement,
         IF pc[p] \in {"get_policy", "add_permission", "remove_permission"}
         THEN get_qualifier(params[p]) ELSE "",
         "ClientError")

CanFail(p) ==
    /\ pc[p] \in {"get_notification", "put_update", "put_create", "put_delete",
                  "get_policy", "add_permission", "remove_permission"}
    /\ pc[p] \in {"put_update", "put_create", "put_delete", "add_permission", "remove_permission"}
          => ~params[p].check_mode

\* mutant of ApiFailure: a failed creation takes the permission back
ApiFailureCompensated(p) ==
    /\ CanFail(p)
    /\ Turn(p)
    /\ calls' = [calls EXCEPT ![p] = Append(@, FailedCall(p))]
    /\ fail_json(p, FailureMessage(pc[p]))
    /\ functionPolicy' =
          IF pc[p] = "put_create"
          THEN [functionPolicy EXCEPT ![get_qualifier(params[p])] =
                   {s \in @ : s.Sid # params[p].source_params.id}]
          ELSE functionPolicy
    /\ UNCHANGED <<bucketNotification, account_id, serialized, compared, params, facts,
                   current_lambda_configs, matching_id_config, current_state,
                   changed, currently_present, policy_changed, pre>>

\* mutant of ApiFailure: a failed removal of the entry is not reported
ApiFailureDeleteGoesOn(p) ==
    /\ CanFail(p)
    /\ Turn(p)
    /\ calls' = [calls EXCEPT ![p] = Append(@, FailedCall(p))]
    /\ IF pc[p] = "put_delete"
       THEN pc' = [pc EXCEPT ![p] = "get_policy"] /\ UNCHANGED msg
       ELSE fail_json(p, FailureMessage(pc[p]))
    /\ UNCHANGED <<bucketNotification, functionPolicy, account_id, serialized, compared, params, facts,
                   current_lambda_configs, matching_id_config, current_state,
                   changed, currently_present, policy_changed, pre>>

ApiFailure(p) ==
    /\ CanFail(p)
    /\ Turn(p)
    /\ calls' = [calls EXCEPT ![p] = Append(@, FailedCall(p))]
    /\ fail_json(p, FailureMessage(pc[p]))
    /\ UNCHANGED <<bucketNotification, functionPolicy, account_id, serialized, compared, params, facts,
                   current_lambda_configs, matching_id_config, current_state,
                   changed, currently_present, policy_changed, pre>>

Next ==
    \E p \in Procs :
        \/ CheckSourceParams(p)
        \/ GetBucketNotificationConfiguration(p)
        \/ PutUpdate(p)
        \/ GetPolicy(p)
        \/ AddPermission(p)
        \/ PutCreate(p)
        \/ PutDelete(p)
        \/ RemovePermission(p)

(***************************************************************************)
(* Initial states: what the bucket and the function hold before the module *)
(* runs, and the parameters of each invocation.                            *)
(***************************************************************************)
Put == "s3:ObjectCreated:Put"
Delete == "s3:ObjectRemoved:Delete"

\* ids of the module's source_params, and ids of entries other tools created
Ids == {"x", "y"}
EntryIds == Ids \cup {"z"}

\* entries a bucket may already hold for an id; S3 keeps the rules and events in any order
KnownConfigs(id) ==
    IF id = "x"
    THEN {[Id |-> id, LambdaFunctionArn |-> "fn",
           Filter |-> {<<FilterRule("Suffix", "s"), FilterRule("Prefix", "p")>>},
           Events |-> {<<Delete, Put>>}],
          [Id |-> id, LambdaFunctionArn |-> "fn",
           Filter |-> {<<FilterRule("Prefix", "p")>>},
           Events |-> {<<Put, Delete>>}],
          [Id |-> id, LambdaFunctionArn |-> "fn", Filter |-> {}, Events |-> {<<Put, Delete>>}]}
    ELSE {[Id |-> id, LambdaFunctionArn |-> "fn",
           Filter |-> {<<FilterRule("Suffix", "s")>>},
           Events |-> {<<Put, Delete>>}]}

\* lists of at most MaxInitConfigs entries with pairwise different ids (S3 enforces it)
RECURSIVE ConfigLists(_)
ConfigLists(n) ==
    IF n = 0 THEN {<<>>}
    ELSE LET shorter == ConfigLists(n - 1)
         IN shorter \cup
            {Append(l, c) : l \in {k \in shorter : Len(k) = n - 1},
                            c \in UNION {KnownConfigs(id) : id \in EntryIds}}

UniqueIds(configs) ==
    \A i, j \in DOMAIN configs : configs[i].Id = configs[j].Id => i = j

\* the bucket notifies Lambda functions only, or a topic and a queue as well
OtherConfigurations ==
    {[TopicConfigurations |-> <<>>, QueueConfigurations |-> <<>>],
     [TopicConfigurations |-> <<"topic-config">>, QueueConfigurations |-> <<"queue-config">>]}

InitNotifications ==
    {[LambdaFunctionConfigurations |-> l,
      TopicConfigurations |-> o.TopicConfigurations,
      QueueConfigurations |-> o.QueueConfigurations] :
        l \in {k \in ConfigLists(MaxInitConfigs) : UniqueIds(k)},
        o \in OtherConfigurations}

Qualifiers == {"", "1", "Dev"}

InvokeStatement(sid) ==
    [Sid |-> sid, Action |-> "lambda:InvokeFunction", Principal |-> "s3.amazonaws.com",
     SourceArn |-> "arn:aws:s3:::b", SourceAccount |-> "123456789012"]

\* the function (and each of its qualified versions) carries the same statements at first
InitPolicies == {[q \in Qualifiers |-> {InvokeStatement(sid) : sid \in S}] : S \in SUBSET Ids}

ValidParams ==
    [state : {"present", "absent"},
     lambda_function_arn : {"fn"}, topic_arn : {""}, queue_arn : {""},
     version : {0, 1}, alias : {"", "Dev"},
     source_params : [id : Ids, bucket : {"b"}, prefix : {"", "p"}, suffix : {"", "s"},
                      events : {<<>>, <<Put, Delete>>}],
     check_mode : BOOLEAN]

\* parameters with a required one missing
InvalidParams ==
    {prm \in [state : {"present", "absent"},
              lambda_function_arn : {"", "fn"}, topic_arn : {""}, queue_arn : {""},
              version : {0}, alias : {""},
              source_params : [id : {"", "x"}, bucket : {"", "b"}, prefix : {"p"}, suffix : {""},
                               events : {<<Put, Delete>>}],
              check_mode : BOOLEAN] :
        \/ prm.lambda_function_arn = ""
        \/ prm.source_params.id = ""
        \/ prm.source_params.bucket = ""}

NotInvoked == CHOOSE prm \in ValidParams : TRUE

InitLocals ==
    /\ facts = [p \in Procs |-> NoFacts]
    /\ current_lambda_configs = [p \in Procs |-> <<>>]
    /\ matching_id_config = [p \in Procs |-> {}]
    /\ current_state = [p \in Procs |-> "absent"]
    /\ changed = [p \in Procs |-> FALSE]
    /\ currently_present = [p \in Procs |-> FALSE]
    /\ policy_changed = [p \in Procs |-> FALSE]
    /\ calls = [p \in Procs |-> <<>>]
    /\ msg = [p \in Procs |-> ""]
    /\ pre = [p \in Procs |-> [doc |-> bucketNotification, policy |-> functionPolicy]]

\* no comparison was asked for
NotCompared == [A |-> PyStr(""), B |-> PyStr(""), result |-> {}]

InitRemote ==
    /\ bucketNotification \in InitNotifications
    /\ functionPolicy \in InitPolicies
    /\ account_id = "123456789012"

\* one invocation, any parameters, any remote state
Init ==
    /\ InitRemote
    /\ compared = NotCompared
    /\ serialized = TRUE
    /\ pc = [p \in Procs |-> IF p = 1 THEN "start" ELSE "idle"]
    /\ \E prm \in ValidParams \cup InvalidParams :
          params = [p \in Procs |-> IF p = 1 THEN prm ELSE NotInvoked]
    /\ InitLocals

Spec == Init /\ [][Next]_vars

\* two invocations one after the other; the second repeats the parameters of the first,
\* with either desired state and either the same or another qualifier, outside check mode
SequenceParams ==
    {prm \in ValidParams : /\ (prm.version = 0) = (prm.alias = "")
                           /\ prm.source_params.events # <<>>}

InitSequence ==
    /\ InitRemote
    /\ compared = NotCompared
    /\ serialized = TRUE
    /\ pc = [p \in Procs |-> "start"]
    /\ \E prm \in SequenceParams, state \in {"present", "absent"}, requalified \in BOOLEAN :
          params = [p \in Procs |->
                      IF p = 1 THEN prm
                      ELSE [prm EXCEPT !.state = state, !.check_mode = FALSE,
                                       !.version = IF requalified THEN 1 - @ ELSE @,
                                       !.alias = IF requalified /\ @ = "" THEN "Dev"
                                                 ELSE IF requalified THEN "" ELSE @]]
    /\ InitLocals

SpecSequence == InitSequence /\ [][Next]_vars

\* the same, with cloud API calls that may fail
NextWithFailures == Next \/ \E p \in Procs : ApiFailure(p)

SpecWithFailures == Init /\ [][NextWithFailures]_vars

\* two invocations for one bucket and function, serialized by the caller or not
ConcurrentParams ==
    {prm \in ValidParams :
        /\ ~prm.check_mode /\ prm.version = 0 /\ prm.alias = ""
        /\ prm.source_params.prefix = "p" /\ prm.source_params.suffix = ""
        /\ prm.source_params.events # <<>>}

InitConcurrent ==
    /\ InitRemote
    /\ compared = NotCompared
    /\ serialized \in BOOLEAN
    /\ pc = [p \in Procs |-> "start"]
    /\ params \in [Procs -> ConcurrentParams]
    /\ InitLocals

SpecConcurrent == InitConcurrent /\ [][Next]_vars

(***************************************************************************)
(* The caller runs the module again once an invocation has ended: a new    *)
(* process, with its own parameters and nothing kept but the remote state. *)
(***************************************************************************)
Invoke(p, prm) ==
    /\ pc[p] \in {"done", "failed"}
    /\ Turn(p)
    /\ pc' = [pc EXCEPT ![p] = "start"]
    /\ params' = [params EXCEPT ![p] = prm]
    /\ facts' = [facts EXCEPT ![p] = NoFacts]
    /\ current_lambda_configs' = [current_lambda_configs EXCEPT ![p] = <<>>]
    /\ matching_id_config' = [matching_id_config EXCEPT ![p] = {}]
    /\ current_state' = [current_state EXCEPT ![p] = "absent"]
    /\ changed' = [changed EXCEPT ![p] = FALSE]
    /\ currently_present' = [currently_present EXCEPT ![p] = FALSE]
    /\ policy_changed' = [policy_changed EXCEPT ![p] = FALSE]
    /\ calls' = [calls EXCEPT ![p] = <<>>]
    /\ msg' = [msg EXCEPT ![p] = ""]
    /\ pre' = [pre EXCEPT ![p] = [doc |-> bucketNotification, policy |-> functionPolicy]]
    /\ UNCHANGED <<bucketNotification, functionPolicy, account_id, serialized, compared>>

\* any number of invocations one after the other, for one function and qualifier,
\* each with its own desired state, id and mode, and with calls that may fail
SerialParams ==
    {prm \in ValidParams :
        /\ prm.version = 0 /\ prm.alias = ""
        /\ prm.source_params.prefix = "p" /\ prm.source_params.suffix = ""
        /\ prm.source_params.events # <<>>}

NextSerial == NextWithFailures \/ \E p \in Procs : \E prm \in SerialParams : Invoke(p, prm)

InitSerial ==
    /\ InitRemote
    /\ compared = NotCompared
    /\ serialized = TRUE
    /\ pc = [p \in Procs |-> IF p = 1 THEN "start" ELSE "idle"]
    /\ \E prm \in SerialParams :
          params = [p \in Procs |-> IF p = 1 THEN prm ELSE NotInvoked]
    /\ InitLocals

SpecSerial == InitSerial /\ [][NextSerial]_vars

(***************************************************************************)
(* One invocation on a connection whose account id was resolved or, the    *)
(* lookup having failed, is the empty string (AWSConnection, lines         *)
(* 159-163).                                                               *)
(***************************************************************************)
AccountIds == {"", "123456789012"}

DegradedLookupParams ==
    {prm \in ValidParams :
        /\ (prm.version = 0) = (prm.alias = "")
        /\ prm.source_params.suffix = ""
        /\ prm.source_params.events # <<>>}

InitDegradedLookup ==
    /\ bucketNotification \in InitNotifications
    /\ functionPolicy \in InitPolicies
    /\ account_id \in AccountIds
    /\ compared = NotCompared
    /\ serialized = TRUE
    /\ pc = [p \in Procs |-> IF p = 1 THEN "start" ELSE "idle"]
    /\ \E prm \in DegradedLookupParams :
          params = [p \in Procs |-> IF p = 1 THEN prm ELSE NotInvoked]
    /\ InitLocals

SpecDegradedLookup == InitDegradedLookup /\ [][Next]_vars

(***************************************************************************)
(* Any number of invocations outside check mode, one after the other, for  *)
(* one bucket, function and qualifier, started on a bucket without Lambda  *)
(* entries and a function without policy; any call may fail.               *)
(***************************************************************************)
CoupledParams ==
    {prm \in ValidParams :
        /\ ~prm.check_mode
        /\ prm.version = 0 /\ prm.alias = ""
        /\ prm.source_params.suffix = ""
        /\ prm.source_params.events # <<>>}

NextCoupled == NextWithFailures \/ \E p \in Procs : \E prm \in CoupledParams : Invoke(p, prm)

InitCoupled ==
    /\ bucketNotification \in {n \in InitNotifications : n.LambdaFunctionConfigurations = <<>>}
    /\ functionPolicy = [q \in Qualifiers |-> {}]
    /\ account_id = "123456789012"
    /\ compared = NotCompared
    /\ serialized = TRUE
    /\ pc = [p \in Procs |-> IF p = 1 THEN "start" ELSE "idle"]
    /\ \E prm \in CoupledParams :
          params = [p \in Procs |-> IF p = 1 THEN prm ELSE NotInvoked]
    /\ InitLocals

SpecCoupled == InitCoupled /\ [][NextCoupled]_vars

(***************************************************************************)
(* main, lines 552-595: the task's arguments go through AnsibleModule,     *)
(* which refuses an argument that argument_spec does not declare and       *)
(* builds module.params with the declared keys only; the handler is then   *)
(* looked up in the module under the name 'lambda_event_' followed by the  *)
(* lowercased event source, and called.  A name is the sequence of its     *)
(* '_' separated tokens.                                                   *)
(***************************************************************************)
EventSources == {"s3", "Kinesis", "DynamoDB", "SNS"}

\* str.lower()
lower(source) ==
    CASE source = "Kinesis"  -> "kinesis"
      [] source = "DynamoDB" -> "dynamodb"
      [] source = "SNS"      -> "sns"
      [] OTHER               -> source

\* the keys of lines 565-572
ArgumentSpec ==
    {"state", "bucket", "prefix", "suffix", "topic_arn", "queue_arn",
     "lambda_function_arn", "events"}

\* the functions the module defines
ModuleFunctions ==
    {<<"pc">>, <<"ordered", "obj">>, <<"set", "api", "sub", "params">>,
     <<"validate", "params">>, <<"get", "qualifier">>, <<"assert", "policy", "state">>,
     <<"get", "policy", "state">>, <<"add", "policy", "permission">>,
     <<"remove", "policy", "permission">>, <<"get", "arn">>,
     <<"s3", "event", "notification">>, <<"main">>}

\* the S3 notification reconciler
S3Handler == <<"s3", "event", "notification">>

\* 'lambda_event_{}'.format(event_source.lower())
HandlerName(event_source) == <<"lambda", "event">> \o <<lower(event_source)>>

\* the arguments a task gives ("", 0 and the empty list stand for an argument left out)
Given(task) ==
    {k \in DOMAIN task \ {"check_mode"} :
        CASE k = "version"       -> task[k] > 0
          [] k = "events"        -> task[k] # <<>>
          [] k = "source_params" -> TRUE
          [] OTHER               -> Truthy(task[k])}

\* tasks written as DOCUMENTATION and EXAMPLES describe the module
DocumentedTasks ==
    {[event_source |-> e] @@ prm :
        e \in EventSources,
        prm \in {v \in ValidParams : /\ (v.version = 0) = (v.alias = "")
                                     /\ v.source_params.suffix = ""
                                     /\ v.source_params.events # <<>>}}

\* tasks written with the arguments argument_spec declares, with or without event_source
DeclaredTasks ==
    [state : {"present", "absent"}, bucket : {"b"}, prefix : {"", "p"}, suffix : {""},
     topic_arn : {""}, queue_arn : {""}, lambda_function_arn : {"fn"},
     events : {<<Put, Delete>>}, event_source : EventSources \cup {""},
     check_mode : BOOLEAN]

\* an exception that no handler catches ends the module
raise(p, exception) ==
    /\ pc' = [pc EXCEPT ![p] = "failed"]
    /\ msg' = [msg EXCEPT ![p] = exception]

Main(p) ==
    /\ pc[p] = "main"
    /\ Turn(p)
    /\ LET task == params[p]
       IN IF Given(task) \ ArgumentSpec # {}
          THEN fail_json(p, "unsupported parameter for module")
          ELSE IF "event_source" \notin ArgumentSpec
          THEN raise(p, "KeyError: 'event_source'")
          ELSE IF HandlerName(task.event_source) \notin ModuleFunctions
          THEN raise(p, "AttributeError")
          ELSE pc' = [pc EXCEPT ![p] = "start"] /\ UNCHANGED msg
    /\ UNCHANGED <<bucketNotification, functionPolicy, account_id, serialized, compared,
                   params, facts, current_lambda_configs, matching_id_config, current_state,
                   changed, currently_present, policy_changed, calls, pre>>

NextDispatch == \E p \in Procs : Main(p)

InitDispatch ==
    /\ InitRemote
    /\ compared = NotCompared
    /\ serialized = TRUE
    /\ pc = [p \in Procs |-> IF p = 1 THEN "main" ELSE "idle"]
    /\ \E task \in DocumentedTasks \cup DeclaredTasks :
          params = [p \in Procs |-> IF p = 1 THEN task ELSE NotInvoked]
    /\ InitLocals

SpecDispatch == InitDispatch /\ [][NextDispatch]_vars

(***************************************************************************)
(* The comparator on its own: two values built from strings, lists and     *)
(* string-keyed dicts are given to line 483's                              *)
(* ordered_obj(A) == ordered_obj(B).                                       *)
(***************************************************************************)
\* longest list of the values compared
MaxListLen == 2

Scalars == {PyStr("a"), PyStr("b")}
Keys == {"k", "l"}

RECURSIVE ListsOf(_, _)
ListsOf(elems, n) ==
    IF n = 0 THEN {<<>>}
    ELSE LET shorter == ListsOf(elems, n - 1)
         IN shorter \cup {Append(l, e) : l \in {k \in shorter : Len(k) = n - 1}, e \in elems}

\* dicts of at most two items, in either insertion order
DictsOf(values) ==
    {<<>>}
    \cup {<< <<k, v>> >> : k \in Keys, v \in values}
    \cup {<< <<ks[1], v1>>, <<ks[2], v2>> >> :
             ks \in {pair \in Keys \X Keys : pair[1] # pair[2]},
             v1 \in values, v2 \in values}

\* what a list or a dict of the values compared may hold
Items ==
    Scalars
    \cup {PyList(<<>>), PyDict(<<>>),
          PyList(<<PyStr("a"), PyStr("b")>>), PyList(<<PyStr("b"), PyStr("a")>>)}

ListItems ==
    Items
    \cup {PyDict(<< <<"k", PyStr("a")>>, <<"l", PyStr("b")>> >>),
          PyDict(<< <<"l", PyStr("b")>>, <<"k", PyStr("a")>> >>)}

Values ==
    Scalars
    \cup {PyList(l) : l \in ListsOf(ListItems, MaxListLen)}
    \cup {PyDict(d) : d \in DictsOf(Items)}

Compare ==
    /\ compared.result = {}
    /\ compared' = [compared EXCEPT
                       !.result = {ordered_obj(compared.A) = ordered_obj(compared.B)}]
    /\ UNCHANGED <<bucketNotification, functionPolicy, account_id, serialized, pc, params,
                   facts, current_lambda_configs, matching_id_config, current_state,
                   changed, currently_present, policy_changed, calls, msg, pre>>

NextComparator == Compare

InitComparator ==
    /\ bucketNotification = [LambdaFunctionConfigurations |-> <<>>,
                             TopicConfigurations |-> <<>>, QueueConfigurations |-> <<>>]
    /\ functionPolicy = [q \in Qualifiers |-> {}]
    /\ account_id = "123456789012"
    /\ serialized = TRUE
    /\ pc = [p \in Procs |-> "idle"]
    /\ params = [p \in Procs |-> NotInvoked]
    /\ InitLocals
    /\ compared \in [A : Values, B : Values, result : {{}}]

SpecComparator == InitComparator /\ [][NextComparator]_vars

(***************************************************************************)
(* Vocabulary of the properties.                                           *)
(***************************************************************************)
Mutating == {"PutBucketNotificationConfiguration", "AddPermission", "RemovePermission"}
PolicyApis == {"GetPolicy", "AddPermission", "RemovePermission"}

\* the calls of a kind an invocation has issued
Issued(p, apis) == {i \in DOMAIN calls[p] : calls[p][i].api \in apis}

\* the invocation has read the bucket and is past the decision of lines 465-523
Decided(p) == pc[p] \notin {"idle", "start", "get_notification"}

\* nothing but invocation p has run since p started
Alone(p) == \A q \in Procs \ {p} : pc[q] \in {"idle", "start"} \/ (q < p /\ pc[q] \in Final)

RequiredGiven(prm) ==
    /\ prm.source_params.id # ""
    /\ prm.source_params.bucket # ""
    /\ prm.lambda_function_arn # ""

EntriesWithId(configs, id) == {i \in DOMAIN configs : configs[i].Id = id}

\* two lists hold the same elements, each as often, in some order
SameElements(s, t) ==
    /\ Range(s) = Range(t)
    /\ \A e \in Range(s) :
          Cardinality({i \in DOMAIN s : s[i] = e}) = Cardinality({i \in DOMAIN t : t[i] = e})

\* two entries are equal up to the order of their filter rules and events
Converged(a, b) ==
    /\ a.Id = b.Id
    /\ a.LambdaFunctionArn = b.LambdaFunctionArn
    /\ (a.Filter = {}) = (b.Filter = {})
    /\ \A f \in a.Filter, g \in b.Filter : SameElements(f, g)
    /\ (a.Events = {}) = (b.Events = {})
    /\ \A f \in a.Events, g \in b.Events : SameElements(f, g)

\* the entries the bucket held for the id of invocation p when p started
EntriesBefore(p) ==
    {pre[p].doc.LambdaFunctionConfigurations[i] :
        i \in EntriesWithId(pre[p].doc.LambdaFunctionConfigurations, params[p].source_params.id)}

(***************************************************************************)
(* C3: in check mode an invocation issues no PutBucketNotification-        *)
(* Configuration, AddPermission or RemovePermission call, and the bucket's *)
(* notification document and the function policy stay what they were       *)
(* when it started.                                                        *)
(***************************************************************************)
DryRunMutatesNothing ==
    \A p \in Procs :
        params[p].check_mode /\ pc[p] # "idle" =>
            /\ Issued(p, Mutating) = {}
            /\ Alone(p) => /\ bucketNotification = pre[p].doc
                           /\ functionPolicy = pre[p].policy

\* a check-mode invocation that reported a change for both the entry and the permission
DryRunReportedChange ==
    /\ pc[1] = "done" /\ params[1].check_mode
    /\ changed[1] /\ policy_changed[1]
    /\ current_state[1] = "absent" /\ params[1].state = "present"

(***************************************************************************)
(* C5: with 'id' or 'bucket' missing the invocation fails with the         *)
(* validation message, has issued no cloud API call, and the remote state  *)
(* is unchanged.                                                           *)
(***************************************************************************)
MissingIdOrBucketFailsFirst ==
    \A p \in Procs :
        /\ pc[p] \notin {"idle", "start"}
        /\ params[p].source_params.id = "" \/ params[p].source_params.bucket = ""
        => /\ pc[p] = "failed"
           /\ msg[p] \in {"Source parameter 'id' is required",
                          "Source parameter 'bucket' is required"}
           /\ calls[p] = <<>>
           /\ Alone(p) => /\ bucketNotification = pre[p].doc
                          /\ functionPolicy = pre[p].policy

MissingBucketFailed ==
    /\ pc[1] = "failed"
    /\ params[1].source_params.id # "" /\ params[1].source_params.bucket = ""
    /\ msg[1] = "Source parameter 'bucket' is required"

(***************************************************************************)
(* C6: when no target service ARN is given the failure is reported with    *)
(* no cloud API call issued before it.                                     *)
(***************************************************************************)
ServiceArnCheckedBeforeAnyCall ==
    \A p \in Procs :
        msg[p] = "Error: exactly one target service ARN is required." => calls[p] = <<>>

(***************************************************************************)
(* C7: (a) state=present and the bucket holds an entry with the id that    *)
(* equals the desired one up to the order of rules, events and keys, or    *)
(* (b) state=absent and the bucket holds no entry with the id: the         *)
(* invocation ends with changed=false and issues no mutating call.         *)
(***************************************************************************)
AlreadyConverged(p) ==
    \/ /\ params[p].state = "present"
       /\ \E e \in EntriesBefore(p) : Converged(e, NewConfiguration(params[p]))
    \/ /\ params[p].state = "absent"
       /\ EntriesBefore(p) = {}

NoOpWhenConverged ==
    \A p \in Procs :
        RequiredGiven(params[p]) /\ Alone(p) /\ Decided(p) /\ AlreadyConverged(p) =>
            /\ pc[p] = "done"
            /\ ~changed[p]
            /\ Issued(p, Mutating) = {}

\* the entry found differs from the desired one in the order of its rules and events only
ConvergedUpToOrder ==
    /\ pc[1] = "done" /\ params[1].state = "present" /\ ~changed[1]
    /\ \E e \in EntriesBefore(1) :
          /\ e # NewConfiguration(params[1])
          /\ \E f \in e.Filter : Len(f) = 2
          /\ Converged(e, NewConfiguration(params[1]))

(***************************************************************************)
(* C8: state=present, not check mode, and the bucket holds an entry with   *)
(* the id that differs from the desired one: the invocation ends with      *)
(* changed=true after exactly one PutBucketNotificationConfiguration whose *)
(* Lambda list holds the desired entry, no other entry with the id, and    *)
(* the entries with other ids as they were; no policy call is issued.      *)
(***************************************************************************)
NeedsUpdate(p) ==
    /\ params[p].state = "present"
    /\ ~params[p].check_mode
    /\ EntriesBefore(p) # {}
    /\ \A e \in EntriesBefore(p) : ~Converged(e, NewConfiguration(params[p]))

OthersBefore(p) ==
    SelectSeq(pre[p].doc.LambdaFunctionConfigurations,
              LAMBDA c : c.Id # params[p].source_params.id)

UpdateInPlace ==
    \A p \in Procs :
        RequiredGiven(params[p]) /\ Alone(p) /\ Decided(p) /\ NeedsUpdate(p) =>
            /\ pc[p] \in {"put_update", "done"}
            /\ Issued(p, PolicyApis) = {}
            /\ pc[p] = "done" =>
                 /\ changed[p]
                 /\ Cardinality(Issued(p, {"PutBucketNotificationConfiguration"})) = 1
                 /\ \A i \in Issued(p, {"PutBucketNotificationConfiguration"}) :
                      \E l \in calls[p][i].doc.LambdaFunctionConfigurations :
                         /\ \E k \in DOMAIN l : l[k] = NewConfiguration(params[p])
                         /\ Cardinality(EntriesWithId(l, params[p].source_params.id)) = 1
                         /\ SelectSeq(l, LAMBDA c : c.Id # params[p].source_params.id)
                               = OthersBefore(p)

\* an update that had another entry to preserve
UpdatedBesideOthers ==
    /\ pc[1] = "done" /\ NeedsUpdate(1) /\ changed[1]
    /\ OthersBefore(1) # <<>>
    /\ pre[1].doc.LambdaFunctionConfigurations[1].Id = params[1].source_params.id

(***************************************************************************)
(* C9: after a successful invocation outside check mode the returned list  *)
(* holds, as a multiset, the entries the bucket holds; for state=present   *)
(* it has the entry of the id, for state=absent it has none.               *)
(***************************************************************************)
ReturnedListIsBucketList ==
    \A p \in Procs :
        pc[p] = "done" /\ ~params[p].check_mode /\ Alone(p) =>
            /\ SameElements(current_lambda_configs[p],
                            bucketNotification.LambdaFunctionConfigurations)
            /\ params[p].state = "present" =>
                  EntriesWithId(current_lambda_configs[p], params[p].source_params.id) # {}
            /\ params[p].state = "absent" =>
                  EntriesWithId(current_lambda_configs[p], params[p].source_params.id) = {}

\* a removal that returned the entries left
ReturnedAfterRemoval ==
    /\ pc[1] = "done" /\ ~params[1].check_mode /\ params[1].state = "absent"
    /\ changed[1] /\ current_lambda_configs[1] # <<>>
    /\ Issued(1, {"RemovePermission"}) # {}

(***************************************************************************)
(* C1: two invocations in sequence with state=present and the same         *)
(* parameters, outside check mode: the first returns changed=true when the *)
(* bucket held no entry with the id; the second returns changed=false and  *)
(* issues no PutBucketNotificationConfiguration, AddPermission or          *)
(* RemovePermission call.                                                  *)
(***************************************************************************)
SamePresentTwice ==
    /\ params[2] = [params[1] EXCEPT !.version = params[2].version, !.alias = params[2].alias]
    /\ params[1].state = "present"
    /\ ~params[1].check_mode

PresentTwiceIsIdempotent ==
    SamePresentTwice =>
        /\ pc[1] # "failed" /\ pc[2] # "failed"
        /\ pc[1] = "done" /\ EntriesBefore(1) = {} => changed[1]
        /\ Issued(2, Mutating) = {}
        /\ pc[2] \in {"start", "get_notification", "done"}
        /\ pc[2] = "done" => ~changed[2]

\* the second of two equal calls found the entry the first one created
SecondCallFoundFirstsEntry ==
    /\ SamePresentTwice
    /\ pc[1] = "done" /\ pc[2] = "done"
    /\ EntriesBefore(1) = {} /\ changed[1] /\ ~changed[2]
    /\ Issued(1, {"AddPermission"}) # {}
    /\ calls[2] # <<>>

(***************************************************************************)
(* C2, as amended: the bucket holds no entry with id x; state=present then *)
(* state=absent with the same id, bucket, function and qualifier, outside  *)
(* check mode: the bucket's Lambda list is the initial one again, and the  *)
(* policy of the qualified function is the initial one without the         *)
(* statement whose Sid is x; the policies of the other qualifiers are      *)
(* untouched.                                                              *)
(***************************************************************************)
PresentThenAbsent ==
    /\ params[1].state = "present" /\ params[2].state = "absent"
    /\ ~params[1].check_mode /\ ~params[2].check_mode
    /\ params[2].source_params = params[1].source_params
    /\ params[2].lambda_function_arn = params[1].lambda_function_arn
    /\ EntriesBefore(1) = {}

WithoutSid(statements, sid) == {s \in statements : s.Sid # sid}

PresentThenAbsentRoundTrip ==
    PresentThenAbsent /\ get_qualifier(params[2]) = get_qualifier(params[1]) =>
        /\ pc[1] # "failed" /\ pc[2] # "failed"
        /\ pc[2] = "done" =>
             /\ bucketNotification = pre[1].doc
             /\ functionPolicy =
                   [q \in Qualifiers |->
                      IF q = get_qualifier(params[1])
                      THEN WithoutSid(pre[1].policy[q], params[1].source_params.id)
                      ELSE pre[1].policy[q]]

\* the round trip went through the bucket and the policy, beside other entries and statements
RoundTripDone ==
    /\ PresentThenAbsent /\ get_qualifier(params[2]) = get_qualifier(params[1])
    /\ pc[2] = "done" /\ changed[1] /\ changed[2]
    /\ pre[1].doc.LambdaFunctionConfigurations # <<>>
    /\ functionPolicy[get_qualifier(params[1])] # {}
    /\ Issued(1, {"AddPermission"}) # {} /\ Issued(2, {"RemovePermission"}) # {}

(***************************************************************************)
(* C2, as claimed: the same with only the id, the bucket and the function  *)
(* the same in both calls: the policy each call addressed is the initial   *)
(* one without the statement whose Sid is x.                               *)
(***************************************************************************)
RoundTripWhateverQualifier ==
    PresentThenAbsent /\ pc[2] = "done" =>
        /\ bucketNotification = pre[1].doc
        /\ \A p \in Procs :
              functionPolicy[get_qualifier(params[p])] =
                 WithoutSid(pre[1].policy[get_qualifier(params[p])], params[1].source_params.id)

(***************************************************************************)
(* C4: a check-mode invocation and an invocation outside check mode, with  *)
(* the same parameters and started from the same remote state, return the  *)
(* same changed flag and the same list of Lambda configurations.           *)
(***************************************************************************)
DryThenReal ==
    /\ params[1].check_mode /\ ~params[2].check_mode
    /\ params[2] = [params[1] EXCEPT !.check_mode = FALSE]

DryRunReportsAsRealRun ==
    DryThenReal =>
        /\ pc[1] # "failed" /\ pc[2] # "failed"
        /\ pc[2] # "start" => pre[2] = pre[1]
        /\ pc[1] = "done" /\ pc[2] = "done" =>
             /\ changed[1] = changed[2]
             /\ current_lambda_configs[1] = current_lambda_configs[2]

\* both runs reported a change, and only the second made it
DryAndRealChanged ==
    /\ DryThenReal
    /\ pc[1] = "done" /\ pc[2] = "done"
    /\ changed[1] /\ changed[2]
    /\ calls[1] # calls[2]
    /\ bucketNotification # pre[2].doc

(***************************************************************************)
(* C10: two invocations with state=present and different ids can both end  *)
(* with changed=true while the bucket holds only one of the two entries,   *)
(* when their reads and writes interleave; never when they are serialized. *)
(***************************************************************************)
BothPresentDone ==
    /\ params[1].state = "present" /\ params[2].state = "present"
    /\ params[1].source_params.id # params[2].source_params.id
    /\ pc[1] = "done" /\ pc[2] = "done"
    /\ changed[1] /\ changed[2]

LostUpdate ==
    /\ BothPresentDone
    /\ \E p \in Procs :
          EntriesWithId(bucketNotification.LambdaFunctionConfigurations,
                        params[p].source_params.id) = {}

LostUpdateOnlyWhenInterleaved == LostUpdate => ~serialized

\* both invocations wrote, one over the other
LostUpdateReached ==
    /\ LostUpdate
    /\ \A p \in Procs : Issued(p, {"PutBucketNotificationConfiguration"}) # {}
    /\ Cardinality(Range(bucketNotification.LambdaFunctionConfigurations)) < 
          Cardinality(Range(pre[1].doc.LambdaFunctionConfigurations)) + 2

(***************************************************************************)
(* Vocabulary of the properties about failing calls.                       *)
(***************************************************************************)
PutApi == "PutBucketNotificationConfiguration"

\* the calls of a kind that returned / that raised
Succeeded(p, apis) == {i \in Issued(p, apis) : calls[p][i].error = NoError}
Raised(p, apis) == {i \in Issued(p, apis) : calls[p][i].error # NoError}

\* the statements the policy invocation p addresses held for p's id when p started
StatementsBefore(p) ==
    {s \in pre[p].policy[get_qualifier(params[p])] : s.Sid = params[p].source_params.id}

(***************************************************************************)
(* C11: state=present outside check mode, no entry with the id and no      *)
(* statement with that Sid: when AddPermission succeeded and the following *)
(* PutBucketNotificationConfiguration failed, the invocation has failed    *)
(* with the creation message, the bucket's notification document is what   *)
(* it was before the call, and the policy is the former one plus the       *)
(* statement added.                                                        *)
(***************************************************************************)
CreateNeeded(p) ==
    /\ params[p].state = "present"
    /\ ~params[p].check_mode
    /\ EntriesBefore(p) = {}
    /\ StatementsBefore(p) = {}

AddedThenPutFailed(p) ==
    \E i \in Succeeded(p, {"AddPermission"}) : \E j \in Raised(p, {PutApi}) : i < j

PartialFailureOnCreate ==
    \A p \in Procs :
        RequiredGiven(params[p]) /\ Alone(p) /\ CreateNeeded(p) /\ AddedThenPutFailed(p) =>
            /\ pc[p] = "failed"
            /\ msg[p] = "Error creating s3 event notification for lambda"
            /\ bucketNotification = pre[p].doc
            /\ functionPolicy =
                  [pre[p].policy EXCEPT ![get_qualifier(params[p])] =
                      @ \cup {StatementOf(AddPermissionParams(params[p], account_id))}]
            /\ StatementPresent(functionPolicy[get_qualifier(params[p])],
                                params[p].source_params.id)

\* the creation failed at the write, beside entries and statements of other ids
CreateFailedAtWrite ==
    /\ CreateNeeded(1) /\ AddedThenPutFailed(1)
    /\ pc[1] = "failed"
    /\ pre[1].doc.LambdaFunctionConfigurations # <<>>
    /\ pre[1].policy[get_qualifier(params[1])] # {}

(***************************************************************************)
(* C12: in an invocation that issues a permission mutation and a           *)
(* notification write, state=present issues AddPermission before           *)
(* PutBucketNotificationConfiguration and state=absent issues              *)
(* PutBucketNotificationConfiguration before RemovePermission; and         *)
(* RemovePermission is never issued once a notification write failed.      *)
(***************************************************************************)
MutationsInOrder ==
    \A p \in Procs :
        /\ \A i \in Issued(p, {"AddPermission", "RemovePermission"}) :
              \A j \in Issued(p, {PutApi}) :
                 /\ params[p].state = "present" =>
                        calls[p][i].api = "AddPermission" /\ i < j
                 /\ params[p].state = "absent" =>
                        calls[p][i].api = "RemovePermission" /\ j < i
        /\ Raised(p, {PutApi}) # {} => Issued(p, {"RemovePermission"}) = {}
        /\ pc[p] = "remove_permission" /\ ~params[p].check_mode => Succeeded(p, {PutApi}) # {}

\* a removal that wrote the document and then took the permission away
RemovedEntryThenPermission ==
    /\ params[1].state = "absent" /\ pc[1] \in {"done", "failed"}
    /\ \E j \in Succeeded(1, {PutApi}) : \E i \in Issued(1, {"RemovePermission"}) : j < i

(***************************************************************************)
(* assert_policy_state has returned in invocation p: its lookup was        *)
(* issued and the invocation is past the policy step.                      *)
(***************************************************************************)
AssertReturned(p) ==
    /\ Issued(p, {"GetPolicy"}) # {}
    /\ pc[p] \in {"put_create", "done"}

PermissionCalls(p) == Issued(p, {"AddPermission", "RemovePermission"})

(***************************************************************************)
(* C13, as amended: outside check mode assert_policy_state adds the        *)
(* statement iff it is desired and no statement has the Sid, removes it    *)
(* iff it is not desired and a statement has the Sid, leaves the policy    *)
(* alone otherwise, and returns true iff AddPermission or RemovePermission *)
(* was called.  In check mode it calls neither, leaves the policy alone    *)
(* and returns true iff one of them would have been called.                *)
(***************************************************************************)
ReconcileStatement ==
    \A p \in Procs :
        Alone(p) /\ AssertReturned(p) =>
            LET q == get_qualifier(params[p])
                sid == params[p].source_params.id
                desired == params[p].state = "present"
                existing == StatementsBefore(p) # {}
                added == StatementOf(AddPermissionParams(params[p], account_id))
            IN /\ \A r \in Qualifiers \ {q} : functionPolicy[r] = pre[p].policy[r]
               /\ ~params[p].check_mode =>
                     /\ desired /\ ~existing =>
                           /\ functionPolicy[q] = pre[p].policy[q] \cup {added}
                           /\ \E i \in PermissionCalls(p) :
                                 /\ PermissionCalls(p) = {i}
                                 /\ calls[p][i].api = "AddPermission"
                     /\ ~desired /\ existing =>
                           /\ functionPolicy[q] = WithoutSid(pre[p].policy[q], sid)
                           /\ \E i \in PermissionCalls(p) :
                                 /\ PermissionCalls(p) = {i}
                                 /\ calls[p][i].api = "RemovePermission"
                     /\ desired = existing =>
                           /\ functionPolicy[q] = pre[p].policy[q]
                           /\ PermissionCalls(p) = {}
                     /\ policy_changed[p] <=> PermissionCalls(p) # {}
               /\ params[p].check_mode =>
                     /\ functionPolicy[q] = pre[p].policy[q]
                     /\ PermissionCalls(p) = {}
                     /\ policy_changed[p] <=> desired # existing

\* a removal that was made and reported, beside a statement of another id
StatementRemovedOnRequest ==
    /\ AssertReturned(1) /\ ~params[1].check_mode
    /\ params[1].state = "absent" /\ StatementsBefore(1) # {}
    /\ policy_changed[1] /\ PermissionCalls(1) # {}
    /\ functionPolicy[get_qualifier(params[1])] # {}

(***************************************************************************)
(* C13, as claimed: whatever the mode, the return value of                 *)
(* assert_policy_state is true iff AddPermission or RemovePermission was   *)
(* called.                                                                 *)
(***************************************************************************)
ReturnsWhetherCallWasMade ==
    \A p \in Procs :
        Alone(p) /\ AssertReturned(p) => (policy_changed[p] <=> PermissionCalls(p) # {})

(***************************************************************************)
(* C14: a GetPolicy call that raised ResourceNotFoundException gives the   *)
(* result false and no failure; one that raised anything else ends the     *)
(* invocation with 'Error retrieving function policy'; one that returned a *)
(* policy gives true iff a statement of the policy has the Sid asked for.  *)
(* The lookup leaves the policy as it was.                                 *)
(***************************************************************************)
LookupIsLastCall(p) ==
    calls[p] # <<>> /\ calls[p][Len(calls[p])].api = "GetPolicy"

KeysOf(d) == {d[2][i][1] : i \in DOMAIN d[2]}

RECURSIVE Equivalent(_, _)
Equivalent(A, B) ==
    /\ A[1] = B[1]
    /\ CASE A[1] = "str" -> A[2] = B[2]
         [] A[1] = "dict" ->
               /\ KeysOf(A) = KeysOf(B)
               /\ \A i \in DOMAIN A[2] : \A j \in DOMAIN B[2] :
                     A[2][i][1] = B[2][j][1] => Equivalent(A[2][i][2], B[2][j][2])
         [] A[1] = "list" ->
               /\ Len(A[2]) = Len(B[2])
               /\ \E f \in Permutations(DOMAIN A[2]) :
                     \A i \in DOMAIN A[2] : Equivalent(A[2][i], B[2][f[i]])

Empty(A) == A[1] \in {"list", "dict"} /\ A[2] = <<>>

\* the same, with an empty dict and an empty list taken for one another at any depth
RECURSIVE EquivalentOrBothEmpty(_, _)
EquivalentOrBothEmpty(A, B) ==
    \/ Empty(A) /\ Empty(B)
    \/ /\ A[1] = B[1]
       /\ CASE A[1] = "str" -> A[2] = B[2]
            [] A[1] = "dict" ->
                  /\ KeysOf(A) = KeysOf(B)
                  /\ \A i \in DOMAIN A[2] : \A j \in DOMAIN B[2] :
                        A[2][i][1] = B[2][j][1] =>
                            EquivalentOrBothEmpty(A[2][i][2], B[2][j][2])
            [] A[1] = "list" ->
                  /\ Len(A[2]) = Len(B[2])
                  /\ \E f \in Permutations(DOMAIN A[2]) :
                        \A i \in DOMAIN A[2] : EquivalentOrBothEmpty(A[2][i], B[2][f[i]])

(***************************************************************************)
(* C15, as amended: ordered_obj(A) == ordered_obj(B) iff A and B are       *)
(* equivalent up to the order of list elements and of dict keys, an empty  *)
(* dict and an empty list being equivalent as well; a value compares equal *)
(* to itself.                                                              *)
(***************************************************************************)
ComparatorDecidesEquivalence ==
    \A verdict \in compared.result :
        /\ verdict <=> EquivalentOrBothEmpty(compared.A, compared.B)
        /\ compared.A = compared.B => verdict

\* two lists of dicts, in another order and with the keys inserted in another order
PermutedComparedEqual ==
    /\ compared.result = {TRUE}
    /\ compared.A # compared.B
    /\ compared.A[1] = "list" /\ Len(compared.A[2]) = 2
    /\ \E i \in DOMAIN compared.A[2] :
          compared.A[2][i][1] = "dict" /\ compared.A[2][i] \notin Range(compared.B[2])
    /\ compared.A[2][1] # compared.B[2][1]

(***************************************************************************)
(* C15, as claimed: ordered_obj(A) == ordered_obj(B) iff A and B have the  *)
(* same keys with comparator-equal values at dicts and the same multiset   *)
(* of comparator-equal elements at lists.                                  *)
(***************************************************************************)
ComparatorIsOrderIndependentEquality ==
    \A verdict \in compared.result : verdict <=> Equivalent(compared.A, compared.B)

(***************************************************************************)
(* C16: when the bucket's Lambda list starts with at most one entry per    *)
(* Id, then through any sequence of serialized invocations (either state,  *)
(* any id, check mode or not, any call failing) the bucket's list, every   *)
(* document given to PutBucketNotificationConfiguration and every list     *)
(* returned have at most one entry per Id.                                 *)
(***************************************************************************)
AtMostOneEntryPerId ==
    /\ UniqueIds(bucketNotification.LambdaFunctionConfigurations)
    /\ \A p \in Procs :
          /\ \A i \in Issued(p, {PutApi}) :
                \A l \in calls[p][i].doc.LambdaFunctionConfigurations : UniqueIds(l)
          /\ pc[p] = "done" => UniqueIds(current_lambda_configs[p])

\* an entry for y was created and the entry for x rewritten after it, beside a third one
CreatedThenUpdated ==
    /\ pc[1] = "done" /\ changed[1] /\ ~params[1].check_mode
    /\ LET l == bucketNotification.LambdaFunctionConfigurations
       IN /\ Len(l) = 3
          /\ l[2].Id = "y" /\ l[2].Filter = {<<FilterRule("Prefix", "p")>>}
          /\ l[3].Id = "x"
          /\ current_lambda_configs[1] = l

(***************************************************************************)
(* C17: after an invocation with state=absent and id x that ended          *)
(* successfully outside check mode, from whatever state, the bucket has no *)
(* Lambda entry with Id x and the function policy no statement with Sid x. *)
(***************************************************************************)
AbsentRemovesEntryAndPermission ==
    \A p \in Procs :
        pc[p] = "done" /\ params[p].state = "absent" /\ ~params[p].check_mode /\ Alone(p) =>
            /\ EntriesWithId(bucketNotification.LambdaFunctionConfigurations,
                             params[p].source_params.id) = {}
            /\ ~StatementPresent(functionPolicy[get_qualifier(params[p])],
                                 params[p].source_params.id)

(***************************************************************************)
(* Vocabulary of the properties about payloads.                            *)
(***************************************************************************)
PayloadKeys(api_params) == {api_params[i][1] : i \in DOMAIN api_params}

\* the payload has the key, with the value
Carries(api_params, key, value) ==
    \E i \in DOMAIN api_params : api_params[i] = <<key, value>>

(***************************************************************************)
(* C18, as amended: AddPermission is issued for state=present outside      *)
(* check mode when no entry has the id and no statement the Sid; its       *)
(* payload carries StatementId = the id, Action = lambda:InvokeFunction,   *)
(* Principal = s3.amazonaws.com, SourceArn = arn:aws:s3:::<bucket> and,    *)
(* when the connection holds an account id, SourceAccount = that id; when  *)
(* the account id is the empty string the payload has no SourceAccount.    *)
(***************************************************************************)
InvokePermissionPayload ==
    \A p \in Procs : \A i \in Issued(p, {"AddPermission"}) :
        LET api_params == calls[p][i].api_params
        IN /\ params[p].state = "present" /\ ~params[p].check_mode
           /\ Alone(p) => EntriesBefore(p) = {} /\ StatementsBefore(p) = {}
           /\ Carries(api_params, <<"FunctionName">>, params[p].lambda_function_arn)
           /\ Carries(api_params, <<"Statement", "Id">>, params[p].source_params.id)
           /\ Carries(api_params, <<"Action">>, "lambda:InvokeFunction")
           /\ Carries(api_params, <<"Principal">>, "s3.amazonaws.com")
           /\ params[p].source_params.bucket = "b" =>
                 Carries(api_params, <<"Source", "Arn">>, "arn:aws:s3:::b")
           /\ account_id # "" => Carries(api_params, <<"Source", "Account">>, account_id)
           /\ account_id = "" => <<"Source", "Account">> \notin PayloadKeys(api_params)
           /\ Cardinality(PayloadKeys(api_params)) = Len(api_params)

\* the permission was added on a connection without an account id
AddedWithoutAccountId ==
    /\ account_id = ""
    /\ pc[1] = "done" /\ changed[1]
    /\ Succeeded(1, {"AddPermission"}) # {}

(***************************************************************************)
(* C18, as claimed: the payload of every AddPermission call carries        *)
(* SourceAccount = the account id of the connection, be it the empty       *)
(* string.                                                                 *)
(***************************************************************************)
PayloadCarriesSourceAccount ==
    \A p \in Procs : \A i \in Issued(p, {"AddPermission"}) :
        Carries(calls[p][i].api_params, <<"Source", "Account">>, account_id)

(***************************************************************************)
(* The bucket has an entry with Id x iff the policy of the qualified       *)
(* function has a statement with Sid x.                                    *)
(***************************************************************************)
Coupled(doc, policy, qualifier) ==
    \A x \in Ids :
        EntriesWithId(doc.LambdaFunctionConfigurations, x) # {}
            <=> StatementPresent(policy[qualifier], x)

GetApi == "GetBucketNotificationConfiguration"

WritesPreserveOtherKinds ==
    \A p \in Procs :
        /\ \A i \in Issued(p, {PutApi}) :
              \E j \in Succeeded(p, {GetApi}) :
                 /\ j < i
                 /\ \A k \in Issued(p, {GetApi}) : k <= j
                 /\ calls[p][i].doc.TopicConfigurations = calls[p][j].doc.TopicConfigurations
                 /\ calls[p][i].doc.QueueConfigurations = calls[p][j].doc.QueueConfigurations
        /\ Alone(p) /\ pc[p] # "start" =>
              /\ bucketNotification.TopicConfigurations = pre[p].doc.TopicConfigurations
              /\ bucketNotification.QueueConfigurations = pre[p].doc.QueueConfigurations

\* the last Lambda entry was removed from a bucket that notifies a topic and a queue
RemovedLastEntryBesideOthers ==
    /\ pc[1] = "done" /\ params[1].state = "absent"
    /\ Succeeded(1, {PutApi}) # {}
    /\ bucketNotification.LambdaFunctionConfigurations = <<>>
    /\ bucketNotification.TopicConfigurations # <<>>
    /\ bucketNotification.QueueConfigurations # <<>>

(***************************************************************************)
(* C21: for event_source = 's3' main resolves the handler under the name   *)
(* 'lambda_event_s3', that name is bound to the S3 notification            *)
(* reconciler, and the reconciler is entered: once main has dispatched,    *)
(* the invocation is in the reconciler or has ended with its result or     *)
(* with one of its failures.                                               *)
(***************************************************************************)
DispatchFailures ==
    {"unsupported parameter for module", "KeyError: 'event_source'", "AttributeError"}

DispatchReachesS3Handler ==
    \A p \in Procs :
        /\ "event_source" \in DOMAIN params[p]
        /\ pc[p] \notin {"idle", "main"}
        => (params[p].event_source = "s3" =>
              /\ HandlerName(params[p].event_source) \in ModuleFunctions
              /\ HandlerName(params[p].event_source) = S3Handler
              /\ msg[p] \notin DispatchFailures)

=============================================================================
